---- MODULE Spec2Model ----
(***************************************************************************)
(* Slices of the Go teaching snippets: a slice header (pointer, length,    *)
(* capacity) over a shared underlying array, with the operations the       *)
(* snippets exercise: slice literal / array, make, nil slice, append,      *)
(* slicing, indexing (read and write) and make+copy.                       *)
(*                                                                         *)
(* A backing store is a sequence of element values (its allocated region). *)
(* A handle is a slice header [store, start, len, cap]: store = 0 is the   *)
(* nil slice (no backing store), start is the 0-based offset of the        *)
(* pointer in the store.  Every operation that returns a slice adds a new  *)
(* handle; handles are values and are never changed afterwards.            *)
(***************************************************************************)
EXTENDS Integers, Sequences, FiniteSets, TLC

\* ---- bounds of the model ------------------------------------------------
\* operations in one run
MaxOps == 3
\* largest capacity given to make; a slice literal has up to MaxCap + 1 elements
MaxCap == 2
\* most elements passed to one append
MaxElems == 2
\* longest slice of the growth runs, and most elements of one of their appends
MaxBigLen == 3300
MaxBigElems == 5

\* elements of the slice two threads race on
RaceLen == 3

\* closures returned by outer(), and calls made to one closure
MaxClosures == 3
MaxCalls == 4

\* statements in one run of the variables-and-pointers programs, and
\* elements of their arrays
MaxStatements == 3
ArrayLen == 2

\* the ages tried are -MaxAge .. MaxAge
MaxAge == 60

\* closures returned by createStateMachine
MaxMachines == 3

\* ---- program constants ---------------------------------------------------
\* "For the first 1024 elements ... the capacity is doubled"
GrowthThreshold == 1024

\* element values: the zero value and a non-zero one
Values == {0, 1}

\* sequences over S of length lo..hi
SeqsOf(S, lo, hi) == UNION {[1..n -> S] : n \in lo..hi}

Zeros(n) == [i \in 1..n |-> 0]

VARIABLES stores, handles, origin, made, last, nops, big, grown, rheap,
          rshared, rpc, rlocal, money, calls, varP, decls, phase, pos, stmt,
          globalA, out, initRuns, scopes, shadowAge, line, printed, given,
          cells, kinds, ptrs, mlast, mops, age, ifLine, said, machines, reply

sliceVars == <<stores, handles, origin, made, last, nops>>
growVars == <<big, grown>>
\* two threads on one slice: the arrays, the slice variable both threads
\* append to, each thread's position and the header each thread loaded
raceVars == <<rheap, rshared, rpc, rlocal>>
\* the closures returned by outer(): the captured money of each, the
\* calls made to each, and the global p
closureVars == <<money, calls, varP>>
\* the init example: the declarations of the file in their order, the
\* phase of the start-up and its position in the file, the statement
\* reached in the running function, the global a, the lines printed and
\* the times init has run
initVars == <<decls, phase, pos, stmt, globalA, out, initRuns>>
\* the shadowing example: the scopes that are open, innermost last, with
\* the a each declares, main's age, the line reached, the values printed
\* and the values the two declarations of a were given
shadowVars == <<scopes, shadowAge, line, printed, given>>
\* variables and pointers: the value of each variable (an int or an array),
\* its kind, the variable each pointer holds the address of, the last
\* statement executed and the number of statements so far
memVars == <<cells, kinds, ptrs, mlast, mops>>
\* the if-else example: age, the line reached and the lines printed
ageVars == <<age, ifLine, said>>
\* the state machines returned by createStateMachine: the captured state of
\* each, and the last call with its input and its result
machineVars == <<machines, reply>>
\* everything but the variables of one program
exceptClosureVars == <<sliceVars, growVars, raceVars, initVars, shadowVars,
                       memVars, ageVars, machineVars>>
exceptInitVars == <<sliceVars, growVars, raceVars, closureVars, shadowVars,
                    memVars, ageVars, machineVars>>
exceptShadowVars == <<sliceVars, growVars, raceVars, closureVars, initVars,
                      memVars, ageVars, machineVars>>
exceptMemVars == <<sliceVars, growVars, raceVars, closureVars, initVars,
                   shadowVars, ageVars, machineVars>>
exceptAgeVars == <<sliceVars, growVars, raceVars, closureVars, initVars,
                   shadowVars, memVars, machineVars>>
exceptMachineVars == <<sliceVars, growVars, raceVars, closureVars, initVars,
                       shadowVars, memVars, ageVars>>
progVars == <<closureVars, initVars, shadowVars, memVars, ageVars,
              machineVars>>
vars == <<stores, handles, origin, made, last, nops, big, grown, rheap,
          rshared, rpc, rlocal, money, calls, varP, decls, phase, pos, stmt,
          globalA, out, initRuns, scopes, shadowAge, line, printed, given,
          cells, kinds, ptrs, mlast, mops, age, ifLine, said, machines,
          reply>>

\* ---- slice header --------------------------------------------------------
NilSlice == [store |-> 0, start |-> 0, len |-> 0, cap |-> 0]

Header(st, off, l, c) == [store |-> st, start |-> off, len |-> l, cap |-> c]

\* offset in the underlying array of element i of header h: pointer + i
StoreOffsetNoStart(h, i) == i
StoreOffset(h, i) == h.start + i

\* element i (0-based) read through header h in store state S
ElemAt(S, h, i) == S[h.store][StoreOffset(h, i) + 1]

\* the elements visible through header h, in order
Elems(S, h) == [i \in 1..h.len |-> ElemAt(S, h, i - 1)]

\* ---- indexing ------------------------------------------------------------
\* slice[i] is legal only below the length, "even if within capacity"
IndexInRangeOfCap(h, i) == i >= 0 /\ i < h.cap
IndexInRange(h, i) == i >= 0 /\ i < h.len

\* ---- slicing -------------------------------------------------------------
\* s[lo:hi] of a slice: 0 <= lo <= hi <= cap(s)
SliceInRangeOfLen(h, lo, hi) == 0 <= lo /\ lo <= hi /\ hi <= h.len
SliceInRangeBelowCap(h, lo, hi) == 0 <= lo /\ lo <= hi /\ hi < h.cap
SliceInRange(h, lo, hi) == 0 <= lo /\ lo <= hi /\ hi <= h.cap

\* pointer moves to lo, length hi - lo, capacity to the end of the array
SliceHeaderCapToEnd(h, lo, hi) == Header(h.store, h.start + lo, hi - lo, hi - lo)
SliceHeaderFromArrayStart(h, lo, hi) == Header(h.store, lo, hi - lo, h.cap - lo)
SliceHeader(h, lo, hi) == Header(h.store, h.start + lo, hi - lo, h.cap - lo)

\* ---- append --------------------------------------------------------------
\* step 1 of append: "does the current slice have enough capacity?"
AppendNeverFits(h, k) == FALSE
AppendFitsOneOver(h, k) == h.len + k <= h.cap + 1
AppendFitsWithRoom(h, k) == h.len + k < h.cap
AppendFits(h, k) == h.len + k <= h.cap

\* one growth step of the capacity: 0 -> 1, doubled up to the threshold,
\* 1.25 times (rounded up) beyond it
GrowStepByRequired(c) ==
    IF c = 0 THEN 1
    ELSE IF c < GrowthThreshold THEN 2 * c
    ELSE c + ((c + 3) \div 4)
GrowStepAlwaysDoubled(c) == IF c = 0 THEN 1 ELSE 2 * c
GrowStepEmptyToTwo(c) ==
    IF c = 0 THEN 2
    ELSE IF c <= GrowthThreshold THEN 2 * c
    ELSE c + ((c + 3) \div 4)
GrowStep(c) ==
    IF c = 0 THEN 1
    ELSE IF c <= GrowthThreshold THEN 2 * c
    ELSE c + ((c + 3) \div 4)

GrowCapOneStep(c, required) == GrowStep(c)
GrowCapToRequired(c, required) ==
    IF GrowStep(c) >= required THEN GrowStep(c) ELSE required
GrowCapOldDoubled(c, required) == 2 * c
RECURSIVE GrowCap(_, _)
\* capacity of the new underlying array for `required` elements
GrowCap(c, required) ==
    IF c >= required THEN c ELSE GrowCap(GrowStep(c), required)

\* store contents after writing elems e at offsets off, off+1, ...
WriteAtStart(store, off, e) ==
    [j \in 1..Len(store) |-> IF j <= Len(e) THEN e[j] ELSE store[j]]
WriteAt(store, off, e) ==
    [j \in 1..Len(store) |->
        IF j > off /\ j <= off + Len(e) THEN e[j - off] ELSE store[j]]

\* the new underlying array of a reallocating append: the old elements, the
\* new elements, and the spare capacity
NewArrayNewFirst(S, h, e, c) == e \o Elems(S, h) \o Zeros(c - h.len - Len(e))
NewArray(S, h, e, c) == Elems(S, h) \o e \o Zeros(c - h.len - Len(e))

\* ---- the record of the last operation ------------------------------------
\* op: the operation; h: the handle it was given; r: the handle it returned
\* (0: none); lo, hi: its index or bounds; elems, val: its elements or value;
\* err: its outcome; pre, preh: the stores and the handles before it
NoOp == [op |-> "none", h |-> 0, r |-> 0, lo |-> 0, hi |-> 0,
         elems |-> <<>>, val |-> 0, err |-> "ok", pre |-> <<>>, preh |-> <<>>]

\* the two threads of a race
Threads == {1, 2}

\* no growth step yet
NoGrowth == [len |-> 0, cap |-> 0, k |-> 0, realloc |-> FALSE]

\* the record of the last statement on variables and pointers: the
\* statement; the variable it reads or writes; the pointer, index and value
\* it uses; the variables before it; the parameter of the called function
\* when it returned
NoStatement == [op |-> "none", c |-> 0, ptr |-> 0, i |-> 0, v |-> 0,
                pre |-> <<>>, param |-> <<>>]
\* the record of the last call on the state machines: the call, the machine
\* called, its input and its result, and the states of the machines before
NoReply == [op |-> "none", m |-> 0, input |-> "", ret |-> "", pre |-> <<>>]
Init ==
    /\ stores = <<>>
    /\ handles = <<>>
    /\ origin = <<>>
    /\ made = <<>>
    /\ last = NoOp
    /\ nops = 0
    /\ big = NilSlice
    /\ grown = NoGrowth
    /\ rheap = <<>>
    /\ rshared = NilSlice
    /\ rpc = [t \in Threads |-> "idle"]
    /\ rlocal = [t \in Threads |-> NilSlice]
    /\ money = <<>>
    /\ calls = <<>>
    /\ varP = 20
    /\ decls = <<>>
    /\ phase = "load"
    /\ pos = 0
    /\ stmt = 0
    /\ globalA = 0
    /\ out = <<>>
    /\ initRuns = 0
    /\ scopes = <<>>
    /\ shadowAge = 0
    /\ line = 5
    /\ printed = <<>>
    /\ given = [outer |-> 0, inner |-> 0]
    /\ cells = <<>>
    /\ kinds = <<>>
    /\ ptrs = <<>>
    /\ mlast = NoStatement
    /\ mops = 0
    /\ age = 0
    /\ ifLine = 6
    /\ said = <<>>
    /\ machines = <<>>
    /\ reply = NoReply

\* one more operation of the run
Step == nops < MaxOps /\ nops' = nops + 1

\* origin[r]: the handle append was given when it returned r (0: r is not the
\* result of an append)
NotAppended == 0

\* made[r]: the expression that returned handle r: its kind, the handle it
\* was applied to (0: none) and its bounds
Made(kind, from, lo, hi) == [op |-> kind, from |-> from, lo |-> lo, hi |-> hi]

\* var arr8 []int  -- empty slice or nil slice
nilSlice ==
    /\ Step
    /\ handles' = Append(handles, NilSlice)
    /\ origin' = Append(origin, NotAppended)
    /\ made' = Append(made, Made("nil", 0, 0, 0))
    /\ last' = [NoOp EXCEPT !.op = "nil", !.r = Len(handles) + 1,
                            !.pre = stores, !.preh = handles]
    /\ UNCHANGED stores

\* arr5 := []int{1, 2, 3}  /  arr := [5]int{1, 2, 3, 4, 5}
sliceLiteral(e) ==
    /\ Step
    /\ stores' = Append(stores, e)
    /\ handles' = Append(handles, Header(Len(stores) + 1, 0, Len(e), Len(e)))
    /\ origin' = Append(origin, NotAppended)
    /\ made' = Append(made, Made("literal", 0, 0, Len(e)))
    /\ last' = [NoOp EXCEPT !.op = "literal", !.r = Len(handles) + 1,
                            !.elems = e, !.pre = stores, !.preh = handles]

\* arr6 := make([]int, 5)  /  arr7 := make([]int, 3, 5)
\* make([]int, l, c) with the length taken from the capacity
makeFull(l, c) ==
    /\ Step
    /\ 0 <= l /\ l <= c
    /\ IF c = 0
       THEN /\ handles' = Append(handles, NilSlice)
            /\ UNCHANGED stores
       ELSE /\ stores' = Append(stores, Zeros(c))
            /\ handles' = Append(handles, Header(Len(stores) + 1, 0, c, c))
    /\ origin' = Append(origin, NotAppended)
    /\ made' = Append(made, Made("make", 0, l, c))
    /\ last' = [NoOp EXCEPT !.op = "make", !.r = Len(handles) + 1,
                            !.lo = l, !.hi = c,
                            !.pre = stores, !.preh = handles]
make(l, c) ==
    /\ Step
    /\ 0 <= l /\ l <= c
    /\ IF c = 0
       THEN /\ handles' = Append(handles, NilSlice)
            /\ UNCHANGED stores
       ELSE /\ stores' = Append(stores, Zeros(c))
            /\ handles' = Append(handles, Header(Len(stores) + 1, 0, l, c))
    /\ origin' = Append(origin, NotAppended)
    /\ made' = Append(made, Made("make", 0, l, c))
    /\ last' = [NoOp EXCEPT !.op = "make", !.r = Len(handles) + 1,
                            !.lo = l, !.hi = c, !.pre = stores, !.preh = handles]

\* newSlice := append(originalSlice, element1, element2, ...)
append(s, e) ==
    LET h == handles[s]
        k == Len(e)
    IN  /\ Step
        /\ IF AppendFits(h, k)
           THEN \* add the elements to the existing underlying array
                /\ stores' = IF k = 0 THEN stores
                             ELSE [stores EXCEPT ![h.store] =
                                      WriteAt(stores[h.store], h.start + h.len, e)]
                /\ handles' = Append(handles, Header(h.store, h.start, h.len + k, h.cap))
                /\ origin' = Append(origin, s)
           ELSE \* create a new, larger underlying array and copy all elements
                LET c == GrowCap(h.cap, h.len + k)
                IN  /\ stores' = Append(stores, NewArray(stores, h, e, c))
                    /\ handles' = Append(handles, Header(Len(stores) + 1, 0, h.len + k, c))
                    /\ origin' = Append(origin, s)
        /\ made' = Append(made, Made("append", s, 0, k))
        /\ last' = [NoOp EXCEPT !.op = "append", !.h = s, !.r = Len(handles) + 1,
                                !.elems = e, !.pre = stores, !.preh = handles]

\* sliced2 := arr2[1:4]  /  sliced4 := sliced3[1:2]
slice(s, lo, hi) ==
    LET h == handles[s]
    IN  /\ Step
        /\ IF SliceInRange(h, lo, hi)
           THEN /\ handles' = Append(handles, SliceHeader(h, lo, hi))
                /\ origin' = Append(origin, NotAppended)
                /\ made' = Append(made, Made("slice", s, lo, hi))
                /\ last' = [NoOp EXCEPT !.op = "slice", !.h = s, !.r = Len(handles) + 1,
                                        !.lo = lo, !.hi = hi, !.pre = stores, !.preh = handles]
                /\ UNCHANGED stores
           ELSE \* runtime panic: slice bounds out of range
                /\ last' = [NoOp EXCEPT !.op = "slice", !.h = s, !.lo = lo, !.hi = hi,
                                        !.err = "RangeError", !.pre = stores, !.preh = handles]
                /\ UNCHANGED <<stores, handles, origin, made>>

\* fmt.Println(slice[i])
get(s, i) ==
    LET h == handles[s]
    IN  /\ Step
        /\ IF IndexInRange(h, i)
           THEN last' = [NoOp EXCEPT !.op = "get", !.h = s, !.lo = i,
                                     !.val = ElemAt(stores, h, i),
                                     !.pre = stores, !.preh = handles]
           ELSE \* runtime panic: index out of range
                last' = [NoOp EXCEPT !.op = "get", !.h = s, !.lo = i,
                                     !.err = "IndexOutOfRange",
                                     !.pre = stores, !.preh = handles]
        /\ UNCHANGED <<stores, handles, origin, made>>

\* arr7[0] = 10
\* arr7[i] = v with the element stored before the bounds check
setBeforeCheck(s, i, v) ==
    LET h == handles[s]
    IN  /\ Step
        /\ stores' = IF IndexInRangeOfCap(h, i)
                     THEN [stores EXCEPT ![h.store][StoreOffset(h, i) + 1] = v]
                     ELSE stores
        /\ last' = [NoOp EXCEPT !.op = "set", !.h = s, !.lo = i, !.val = v,
                                !.err = IF IndexInRange(h, i) THEN "ok"
                                        ELSE "IndexOutOfRange",
                                !.pre = stores, !.preh = handles]
        /\ UNCHANGED <<handles, origin, made>>
set(s, i, v) ==
    LET h == handles[s]
    IN  /\ Step
        /\ IF IndexInRange(h, i)
           THEN /\ stores' = [stores EXCEPT ![h.store][StoreOffset(h, i) + 1] = v]
                /\ last' = [NoOp EXCEPT !.op = "set", !.h = s, !.lo = i, !.val = v,
                                        !.pre = stores, !.preh = handles]
                /\ UNCHANGED <<handles, origin, made>>
           ELSE \* runtime panic: index out of range
                /\ last' = [NoOp EXCEPT !.op = "set", !.h = s, !.lo = i, !.val = v,
                                        !.err = "IndexOutOfRange",
                                        !.pre = stores, !.preh = handles]
                /\ UNCHANGED <<stores, handles, origin, made>>

\* result := make([]int, len(list)); copy(result, list)
\* result := list  -- the handle copied, the underlying array shared
copyOfShares(s) ==
    LET h == handles[s]
    IN  /\ Step
        /\ handles' = Append(handles, Header(h.store, h.start, h.len, h.len))
        /\ UNCHANGED stores
        /\ origin' = Append(origin, NotAppended)
        /\ made' = Append(made, Made("copy", s, 0, 0))
        /\ last' = [NoOp EXCEPT !.op = "copy", !.h = s, !.r = Len(handles) + 1,
                                !.pre = stores, !.preh = handles]
copyOf(s) ==
    LET h == handles[s]
    IN  /\ Step
        /\ IF h.len = 0
           THEN /\ handles' = Append(handles, NilSlice)
                /\ UNCHANGED stores
           ELSE /\ stores' = Append(stores, Elems(stores, h))
                /\ handles' = Append(handles, Header(Len(stores) + 1, 0, h.len, h.len))
        /\ origin' = Append(origin, NotAppended)
        /\ made' = Append(made, Made("copy", s, 0, 0))
        /\ last' = [NoOp EXCEPT !.op = "copy", !.h = s, !.r = Len(handles) + 1,
                                !.pre = stores, !.preh = handles]

HandleIds == 1..Len(handles)

\* indices a caller tries on header h: negative, below the length, between
\* length and capacity, and past the capacity
IndicesOf(h) == -1..h.cap

\* bounds a caller tries on header h: start from -1 to the capacity, end from
\* 0 to one past the capacity
StartsOf(h) == -1..h.cap
EndsOf(h) == 0..(h.cap + 1)

Next ==
    \/ nilSlice /\ UNCHANGED <<growVars, raceVars, progVars>>
    \/ \E e \in SeqsOf(Values, 1, MaxCap + 1) :
           sliceLiteral(e) /\ UNCHANGED <<growVars, raceVars, progVars>>
    \/ \E c \in 0..MaxCap, l \in 0..MaxCap :
           make(l, c) /\ UNCHANGED <<growVars, raceVars, progVars>>
    \/ \E s \in HandleIds, e \in SeqsOf(Values, 0, MaxElems) :
           append(s, e) /\ UNCHANGED <<growVars, raceVars, progVars>>
    \/ \E s \in HandleIds : \E lo \in StartsOf(handles[s]), hi \in EndsOf(handles[s]) :
           slice(s, lo, hi) /\ UNCHANGED <<growVars, raceVars, progVars>>
    \/ \E s \in HandleIds : \E i \in IndicesOf(handles[s]) :
           get(s, i) /\ UNCHANGED <<growVars, raceVars, progVars>>
    \/ \E s \in HandleIds : \E i \in IndicesOf(handles[s]), v \in Values :
           set(s, i, v) /\ UNCHANGED <<growVars, raceVars, progVars>>
    \/ \E s \in HandleIds : copyOf(s) /\ UNCHANGED <<growVars, raceVars, progVars>>

Spec == Init /\ [][Next]_vars

\* ---- growth runs ---------------------------------------------------------
\* for i := 1; i <= 10; i++ { slice = append(slice, i) }, the slice followed
\* by its length and capacity only: slice = append(slice, k elements)
appendLen(k) ==
    /\ big.len + k <= MaxBigLen
    /\ grown' = [len |-> big.len, cap |-> big.cap, k |-> k,
                 realloc |-> ~AppendFits(big, k)]
    /\ big' = IF AppendFits(big, k)
              THEN Header(0, 0, big.len + k, big.cap)
              ELSE Header(0, 0, big.len + k, GrowCap(big.cap, big.len + k))

NextGrow ==
    \E k \in 0..MaxBigElems : appendLen(k) /\ UNCHANGED <<sliceVars, raceVars, progVars>>

SpecGrow == Init /\ [][NextGrow]_vars

\* ---- two threads on one slice --------------------------------------------
\* the slice both threads start from: a literal of RaceLen elements, full
RaceWhole == Header(1, 0, RaceLen, RaceLen)

\* the view each thread stores through: the slice itself and slice[1:]
ViewOf(t) == IF t = 1 THEN RaceWhole ELSE SliceHeader(RaceWhole, 1, RaceLen)

\* the value a thread stores and appends, different from every initial element
ThreadVal(t) == 1 + t

\* the two array offsets both views cover that the threads store to, in the
\* order each thread stores to them
RacedSlot(pc) == IF pc = "setA" THEN RaceLen - 2 ELSE RaceLen - 1

\* slice := []int{...}, handed to both threads
raceStart(e) ==
    /\ \A t \in Threads : rpc[t] = "idle"
    /\ rheap' = <<e>>
    /\ rshared' = RaceWhole
    /\ rpc' = [t \in Threads |-> "setA"]
    /\ UNCHANGED rlocal

\* view[i] = v on one of the two raced slots
threadSet(t) ==
    LET v == ViewOf(t)
        i == RacedSlot(rpc[t]) - v.start
    IN  /\ rpc[t] \in {"setA", "setB"}
        /\ IndexInRange(v, i)
        /\ rheap' = [rheap EXCEPT ![v.store][StoreOffset(v, i) + 1] = ThreadVal(t)]
        /\ rpc' = [rpc EXCEPT ![t] = IF rpc[t] = "setA" THEN "setB" ELSE "load"]
        /\ UNCHANGED <<rshared, rlocal>>

\* slice = append(slice, v), first half: the slice variable is read
threadLoad(t) ==
    /\ rpc[t] = "load"
    /\ rlocal' = [rlocal EXCEPT ![t] = rshared]
    /\ rpc' = [rpc EXCEPT ![t] = "store"]
    /\ UNCHANGED <<rheap, rshared>>

\* slice = append(slice, v), second half: append works on the header that
\* was read and its result is assigned to the slice variable
threadStore(t) ==
    LET h == rlocal[t]
        e == <<ThreadVal(t)>>
    IN  /\ rpc[t] = "store"
        /\ IF AppendFits(h, 1)
           THEN /\ rheap' = [rheap EXCEPT ![h.store] =
                                 WriteAt(rheap[h.store], h.start + h.len, e)]
                /\ rshared' = Header(h.store, h.start, h.len + 1, h.cap)
           ELSE /\ rheap' = Append(rheap, NewArray(rheap, h, e, GrowCap(h.cap, h.len + 1)))
                /\ rshared' = Header(Len(rheap) + 1, 0, h.len + 1,
                                     GrowCap(h.cap, h.len + 1))
        /\ rpc' = [rpc EXCEPT ![t] = "done"]
        /\ UNCHANGED rlocal

NextRace ==
    \/ \E e \in SeqsOf(Values, RaceLen, RaceLen) :
           raceStart(e) /\ UNCHANGED <<sliceVars, growVars, progVars>>
    \/ \E t \in Threads : threadSet(t) /\ UNCHANGED <<sliceVars, growVars, progVars>>
    \/ \E t \in Threads : threadLoad(t) /\ UNCHANGED <<sliceVars, growVars, progVars>>
    \/ \E t \in Threads : threadStore(t) /\ UNCHANGED <<sliceVars, growVars, progVars>>

SpecRace == Init /\ [][NextRace]_vars

\* ---- closures ------------------------------------------------------------
\* const a = 10
constA == 10

\* money := 100
InitialMoney == 100

\* increment1 := outer(): a new money variable on the heap for the closure
outer ==
    /\ Len(money) < MaxClosures
    /\ money' = Append(money, InitialMoney)
    /\ calls' = Append(calls, 0)
    /\ UNCHANGED varP

\* increment() on the first closure's money, whichever closure is called
showOnFirstMoney(i) ==
    /\ calls[i] < MaxCalls
    /\ money' = [money EXCEPT ![1] = money[1] + constA + varP]
    /\ calls' = [calls EXCEPT ![i] = calls[i] + 1]
    /\ UNCHANGED varP

\* increment(): money = money + a + p on the money the closure captured
show(i) ==
    /\ calls[i] < MaxCalls
    /\ money' = [money EXCEPT ![i] = money[i] + constA + varP]
    /\ calls' = [calls EXCEPT ![i] = calls[i] + 1]
    /\ UNCHANGED varP

NextClosure ==
    \/ outer /\ UNCHANGED exceptClosureVars
    \/ \E i \in 1..Len(money) : show(i) /\ UNCHANGED exceptClosureVars

SpecClosure == Init /\ [][NextClosure]_vars

\* ---- package initialisation ----------------------------------------------
\* the three declarations of the file, in every order
Declarations == {"var a", "func main", "func init"}
DeclOrders ==
    {d \in [1..3 -> Declarations] : \A x \in Declarations : \E i \in 1..3 : d[i] = x}

\* what the start-up executes in each of its phases: every declaration at
\* once, in the order of the file
RunsInFileOrder(ph, d) == ph = "vars"
\* what the start-up executes in each of its phases: package-level
\* variables, then init, then main
RunsIn(ph, d) ==
    \/ ph = "vars" /\ d = "var a"
    \/ ph = "init" /\ d = "func init"
    \/ ph = "main" /\ d = "func main"

PhaseAfter(ph) ==
    CASE ph = "vars" -> "init"
      [] ph = "init" -> "main"
      [] ph = "main" -> "exit"

\* the package is loaded: the file with its declarations in order d
loadPackage(d) ==
    /\ phase = "load"
    /\ decls' = d
    /\ phase' = "vars"
    /\ pos' = 1
    /\ UNCHANGED <<stmt, globalA, out, initRuns>>

\* the start-up looks at the next declaration of the file
scan ==
    /\ phase \in {"vars", "init", "main"}
    /\ stmt = 0
    /\ pos <= Len(decls)
    /\ IF ~RunsIn(phase, decls[pos])
       THEN /\ pos' = pos + 1
            /\ UNCHANGED <<stmt, globalA>>
       ELSE IF decls[pos] = "var a"
       THEN \* var a int = 0
            /\ globalA' = 0
            /\ pos' = pos + 1
            /\ UNCHANGED stmt
       ELSE \* the function is entered
            /\ stmt' = 1
            /\ UNCHANGED <<pos, globalA>>
    /\ UNCHANGED <<decls, phase, out, initRuns>>

\* the end of the file is reached: the next phase starts
nextPhase ==
    /\ phase \in {"vars", "init", "main"}
    /\ stmt = 0
    /\ pos > Len(decls)
    /\ phase' = PhaseAfter(phase)
    /\ pos' = 1
    /\ UNCHANGED <<decls, stmt, globalA, out, initRuns>>

\* func init(): a = 10; Println("a =", a); Println("init function")
initStmt ==
    /\ stmt > 0
    /\ decls[pos] = "func init"
    /\ CASE stmt = 1 -> /\ globalA' = 10
                        /\ stmt' = 2
                        /\ UNCHANGED <<out, pos, initRuns>>
         [] stmt = 2 -> /\ out' = Append(out, <<"a =", globalA>>)
                        /\ stmt' = 3
                        /\ UNCHANGED <<globalA, pos, initRuns>>
         [] stmt = 3 -> /\ out' = Append(out, <<"init function">>)
                        /\ stmt' = 0
                        /\ pos' = pos + 1
                        /\ initRuns' = initRuns + 1
                        /\ UNCHANGED globalA
    /\ UNCHANGED <<decls, phase>>

\* func main(): Println("main function"); Println("a =", a)
mainStmt ==
    /\ stmt > 0
    /\ decls[pos] = "func main"
    /\ CASE stmt = 1 -> /\ out' = Append(out, <<"main function">>)
                        /\ stmt' = 2
                        /\ UNCHANGED pos
         [] stmt = 2 -> /\ out' = Append(out, <<"a =", globalA>>)
                        /\ stmt' = 0
                        /\ pos' = pos + 1
    /\ UNCHANGED <<decls, phase, globalA, initRuns>>

NextInit ==
    \/ \E d \in DeclOrders : loadPackage(d) /\ UNCHANGED exceptInitVars
    \/ scan /\ UNCHANGED exceptInitVars
    \/ nextPhase /\ UNCHANGED exceptInitVars
    \/ initStmt /\ UNCHANGED exceptInitVars
    \/ mainStmt /\ UNCHANGED exceptInitVars

SpecInit == Init /\ [][NextInit]_vars

\* ---- variable shadowing --------------------------------------------------
\* values given to a: the example's 10 and 47 and two more; ages on both
\* sides of the condition age >= 18
ShadowValues == {0, 10, 30, 47}
ShadowAges == {17, 18, 30}

\* a scope that declares no a, and one that declares a with value v
NoA == [has |-> FALSE, val |-> 0]
DeclaresA(v) == [has |-> TRUE, val |-> v]

\* the innermost open scope that declares a
ScopeOfA(sc) == CHOOSE i \in 1..Len(sc) :
                    sc[i].has /\ \A j \in (i + 1)..Len(sc) : ~sc[j].has

\* fmt.Println(a): a is the a of the innermost scope that declares one
ReadA(sc) == sc[ScopeOfA(sc)].val

\* a = v: an assignment to the a that is visible
DeclareAsAssignment(sc, v) == [sc EXCEPT ![ScopeOfA(sc)] = DeclaresA(v)]
\* a := v: a new a in the innermost scope
Declare(sc, v) == [sc EXCEPT ![Len(sc)] = DeclaresA(v)]

\* var a int = 10
declareGlobal(x) ==
    /\ line = 5
    /\ scopes' = <<DeclaresA(x)>>
    /\ given' = [given EXCEPT !.outer = x]
    /\ line' = 8
    /\ UNCHANGED <<shadowAge, printed>>

\* func main() { age := 30
enterMain(g) ==
    /\ line = 8
    /\ scopes' = Append(scopes, NoA)
    /\ shadowAge' = g
    /\ line' = 10
    /\ UNCHANGED <<printed, given>>

\* if age >= 18 {
ifAdult ==
    /\ line = 10
    /\ IF shadowAge >= 18
       THEN /\ scopes' = Append(scopes, NoA)
            /\ line' = 11
       ELSE /\ line' = 15
            /\ UNCHANGED scopes
    /\ UNCHANGED <<shadowAge, printed, given>>

\* a := 47
shadowA(y) ==
    /\ line = 11
    /\ scopes' = Declare(scopes, y)
    /\ given' = [given EXCEPT !.inner = y]
    /\ line' = 12
    /\ UNCHANGED <<shadowAge, printed>>

\* fmt.Println(a), inside the block and after it
printA ==
    /\ line \in {12, 15}
    /\ printed' = Append(printed, ReadA(scopes))
    /\ line' = IF line = 12 THEN 13 ELSE 16
    /\ UNCHANGED <<scopes, shadowAge, given>>

\* } : the block ends and its scope is closed
endBlock ==
    /\ line = 13
    /\ scopes' = SubSeq(scopes, 1, Len(scopes) - 1)
    /\ line' = 15
    /\ UNCHANGED <<shadowAge, printed, given>>

NextShadow ==
    \/ \E x \in ShadowValues : declareGlobal(x) /\ UNCHANGED exceptShadowVars
    \/ \E g \in ShadowAges : enterMain(g) /\ UNCHANGED exceptShadowVars
    \/ ifAdult /\ UNCHANGED exceptShadowVars
    \/ \E y \in ShadowValues : shadowA(y) /\ UNCHANGED exceptShadowVars
    \/ printA /\ UNCHANGED exceptShadowVars
    \/ endBlock /\ UNCHANGED exceptShadowVars

SpecShadow == Init /\ [][NextShadow]_vars

\* ---- arrays, assignment, parameters and pointers -------------------------
Statement == mops < MaxStatements /\ mops' = mops + 1

CellIds == 1..Len(cells)
ArrayIds == {c \in CellIds : kinds[c] = "array"}
IntIds == {c \in CellIds : kinds[c] = "int"}

\* array arr with element i (from 0) replaced by v
WithElem(arr, i, v) == [arr EXCEPT ![i + 1] = v]

\* x := 5
declareInt(v) ==
    /\ Statement
    /\ cells' = Append(cells, v)
    /\ kinds' = Append(kinds, "int")
    /\ mlast' = [NoStatement EXCEPT !.op = "int", !.c = Len(cells) + 1, !.v = v,
                                    !.pre = cells]
    /\ UNCHANGED ptrs

\* arr := [5]int{1, 2, 3, 4, 5}
declareArray(e) ==
    /\ Statement
    /\ cells' = Append(cells, e)
    /\ kinds' = Append(kinds, "array")
    /\ mlast' = [NoStatement EXCEPT !.op = "array", !.c = Len(cells) + 1,
                                    !.pre = cells]
    /\ UNCHANGED ptrs

\* destination := source  /  arr7 := arr6 : a new variable with a copy of
\* the whole array
assign(s) ==
    /\ Statement
    /\ cells' = Append(cells, cells[s])
    /\ kinds' = Append(kinds, kinds[s])
    /\ mlast' = [NoStatement EXCEPT !.op = "assign", !.c = s, !.pre = cells]
    /\ UNCHANGED ptrs

\* arr5[0] = 10  /  destination[0] = 100
setElem(c, i, v) ==
    /\ Statement
    /\ kinds[c] = "array"
    /\ cells' = [cells EXCEPT ![c] = WithElem(cells[c], i, v)]
    /\ mlast' = [NoStatement EXCEPT !.op = "setElem", !.c = c, !.i = i, !.v = v,
                                    !.pre = cells]
    /\ UNCHANGED <<kinds, ptrs>>

\* modifyArray(arr) with the parameter on the caller's array
modifyArrayOnCaller(c, i, v) ==
    /\ Statement
    /\ kinds[c] = "array"
    /\ cells' = [cells EXCEPT ![c] = WithElem(cells[c], i, v)]
    /\ mlast' = [NoStatement EXCEPT !.op = "byValue", !.c = c, !.i = i, !.v = v,
                                    !.pre = cells,
                                    !.param = WithElem(cells[c], i, v)]
    /\ UNCHANGED <<kinds, ptrs>>

\* modifyArray(arr) where func modifyArray(numbers [5]int) { numbers[0] = 999 }:
\* numbers is a copy of arr, is written, and is gone when the call returns
modifyArray(c, i, v) ==
    /\ Statement
    /\ kinds[c] = "array"
    /\ mlast' = [NoStatement EXCEPT !.op = "byValue", !.c = c, !.i = i, !.v = v,
                                    !.pre = cells,
                                    !.param = WithElem(cells[c], i, v)]
    /\ UNCHANGED <<cells, kinds, ptrs>>

\* p := &x
addressOf(c) ==
    /\ Statement
    /\ kinds[c] = "int"
    /\ ptrs' = Append(ptrs, c)
    /\ mlast' = [NoStatement EXCEPT !.op = "addressOf", !.c = c,
                                    !.ptr = Len(ptrs) + 1, !.pre = cells]
    /\ UNCHANGED <<cells, kinds>>

\* *p = 10 stored in a copy of the variable p points to
storeInCopy(q, v) ==
    /\ Statement
    /\ mlast' = [NoStatement EXCEPT !.op = "store", !.c = ptrs[q], !.ptr = q,
                                    !.v = v, !.pre = cells]
    /\ UNCHANGED <<cells, kinds, ptrs>>

\* *p = 10
store(q, v) ==
    /\ Statement
    /\ cells' = [cells EXCEPT ![ptrs[q]] = v]
    /\ mlast' = [NoStatement EXCEPT !.op = "store", !.c = ptrs[q], !.ptr = q,
                                    !.v = v, !.pre = cells]
    /\ UNCHANGED <<kinds, ptrs>>

\* modifyArray(&arr) where func modifyArray(numbers *[5]int) {
\* (*numbers)[0] = 999 }: numbers holds the address of arr
modifyArrayByPointer(c, i, v) ==
    /\ Statement
    /\ kinds[c] = "array"
    /\ cells' = [cells EXCEPT ![c] = WithElem(cells[c], i, v)]
    /\ mlast' = [NoStatement EXCEPT !.op = "byPointer", !.c = c, !.i = i, !.v = v,
                                    !.pre = cells]
    /\ UNCHANGED <<kinds, ptrs>>

ArrayIndices == 0..(ArrayLen - 1)

NextMem ==
    \/ \E v \in Values : declareInt(v) /\ UNCHANGED exceptMemVars
    \/ \E e \in SeqsOf(Values, ArrayLen, ArrayLen) :
           declareArray(e) /\ UNCHANGED exceptMemVars
    \/ \E s \in CellIds : assign(s) /\ UNCHANGED exceptMemVars
    \/ \E c \in ArrayIds, i \in ArrayIndices, v \in Values :
           setElem(c, i, v) /\ UNCHANGED exceptMemVars
    \/ \E c \in ArrayIds, i \in ArrayIndices, v \in Values :
           modifyArray(c, i, v) /\ UNCHANGED exceptMemVars
    \/ \E c \in IntIds : addressOf(c) /\ UNCHANGED exceptMemVars
    \/ \E q \in 1..Len(ptrs), v \in Values : store(q, v) /\ UNCHANGED exceptMemVars
    \/ \E c \in ArrayIds, i \in ArrayIndices, v \in Values :
           modifyArrayByPointer(c, i, v) /\ UNCHANGED exceptMemVars

SpecMem == Init /\ [][NextMem]_vars

\* ---- if / else if / else -------------------------------------------------
Ages == (0 - MaxAge)..MaxAge

\* if age > 18
IsAdultAbove(g) == g > 18
\* if age >= 18
IsAdult(g) == g >= 18

\* else if age >= 13
IsTeenager(g) == g >= 13

\* age := 20
declareAge(g) ==
    /\ ifLine = 6
    /\ age' = g
    /\ ifLine' = 8
    /\ UNCHANGED said

\* if age >= 18 { fmt.Println("you are an adult") }
ifAgeAdult ==
    /\ ifLine = 8
    /\ IF IsAdult(age)
       THEN /\ said' = Append(said, "you are an adult")
            /\ ifLine' = 15
       ELSE /\ ifLine' = 10
            /\ UNCHANGED said
    /\ UNCHANGED age

\* else if age >= 13 { fmt.Println("you are a teenager") }
elseIfTeenager ==
    /\ ifLine = 10
    /\ IF IsTeenager(age)
       THEN /\ said' = Append(said, "you are a teenager")
            /\ ifLine' = 15
       ELSE /\ ifLine' = 12
            /\ UNCHANGED said
    /\ UNCHANGED age

\* else { fmt.Println("you are a child") }
elseChild ==
    /\ ifLine = 12
    /\ said' = Append(said, "you are a child")
    /\ ifLine' = 15
    /\ UNCHANGED age

NextAge ==
    \/ \E g \in Ages : declareAge(g) /\ UNCHANGED exceptAgeVars
    \/ ifAgeAdult /\ UNCHANGED exceptAgeVars
    \/ elseIfTeenager /\ UNCHANGED exceptAgeVars
    \/ elseChild /\ UNCHANGED exceptAgeVars

SpecAge == Init /\ [][NextAge]_vars

\* ---- safeAppend ----------------------------------------------------------
\* safeAppend as a plain append(slice, values...)
safeAppendInPlace(s, e) ==
    LET h == handles[s]
        k == Len(e)
    IN  /\ Step
        /\ IF AppendFits(h, k)
           THEN /\ stores' = IF k = 0 THEN stores
                             ELSE [stores EXCEPT ![h.store] =
                                      WriteAt(stores[h.store], h.start + h.len, e)]
                /\ handles' = Append(handles, Header(h.store, h.start, h.len + k, h.cap))
           ELSE LET c == GrowCap(h.cap, h.len + k)
                IN  /\ stores' = Append(stores, NewArray(stores, h, e, c))
                    /\ handles' = Append(handles, Header(Len(stores) + 1, 0, h.len + k, c))
        /\ origin' = Append(origin, NotAppended)
        /\ made' = Append(made, Made("safeAppend", s, 0, k))
        /\ last' = [NoOp EXCEPT !.op = "safeAppend", !.h = s, !.r = Len(handles) + 1,
                                !.elems = e, !.pre = stores, !.preh = handles]

\* func safeAppend(slice []int, values ...int) []int
safeAppend(s, e) ==
    LET h == handles[s]
        k == Len(e)
    IN  /\ Step
        /\ IF ~AppendFits(h, k)
           THEN \* return append(slice, values...): a new array anyway
                LET c == GrowCap(h.cap, h.len + k)
                IN  /\ stores' = Append(stores, NewArray(stores, h, e, c))
                    /\ handles' = Append(handles, Header(Len(stores) + 1, 0, h.len + k, c))
           ELSE IF h.len + k = 0
           THEN \* make([]int, 0, 0), nothing copied, nothing appended
                /\ handles' = Append(handles, NilSlice)
                /\ UNCHANGED stores
           ELSE \* newSlice := make([]int, len(slice), len(slice)+len(values));
                \* copy(newSlice, slice); return append(newSlice, values...)
                LET made0 == Zeros(h.len + k)
                    copied == WriteAt(made0, 0, Elems(stores, h))
                    appended == WriteAt(copied, h.len, e)
                IN  /\ stores' = Append(stores, appended)
                    /\ handles' = Append(handles,
                                         Header(Len(stores) + 1, 0, h.len + k, h.len + k))
        /\ origin' = Append(origin, NotAppended)
        /\ made' = Append(made, Made("safeAppend", s, 0, k))
        /\ last' = [NoOp EXCEPT !.op = "safeAppend", !.h = s, !.r = Len(handles) + 1,
                                !.elems = e, !.pre = stores, !.preh = handles]

NextSafe ==
    \/ Next
    \/ \E s \in HandleIds, e \in SeqsOf(Values, 0, MaxElems) :
           safeAppend(s, e) /\ UNCHANGED <<growVars, raceVars, progVars>>

SpecSafe == Init /\ [][NextSafe]_vars

\* ---- state machine closure -----------------------------------------------
\* inputs given to a machine: the two the switch knows and two others
Inputs == {"start", "stop", "pause", ""}

\* machine := createStateMachine(): state := "initial", captured by the
\* returned closure
createStateMachine ==
    /\ Len(machines) < MaxMachines
    /\ machines' = Append(machines, "initial")
    /\ reply' = [NoReply EXCEPT !.op = "create", !.m = Len(machines) + 1,
                                !.pre = machines]

\* machine(input) with the inputs tested before the state
machineByInput(m, input) ==
    /\ IF input = "start"
       THEN /\ machines' = [machines EXCEPT ![m] = "running"]
            /\ reply' = [NoReply EXCEPT !.op = "call", !.m = m, !.input = input,
                                        !.ret = "State changed to running",
                                        !.pre = machines]
       ELSE IF input = "stop"
       THEN /\ machines' = [machines EXCEPT ![m] = "stopped"]
            /\ reply' = [NoReply EXCEPT !.op = "call", !.m = m, !.input = input,
                                        !.ret = "State changed to stopped",
                                        !.pre = machines]
       ELSE /\ reply' = [NoReply EXCEPT !.op = "call", !.m = m, !.input = input,
                                        !.ret = "No state change", !.pre = machines]
            /\ UNCHANGED machines

\* machine(input): switch state { case "initial": ... case "running": ... }
machine(m, input) ==
    /\ IF machines[m] = "initial" /\ input = "start"
       THEN /\ machines' = [machines EXCEPT ![m] = "running"]
            /\ reply' = [NoReply EXCEPT !.op = "call", !.m = m, !.input = input,
                                        !.ret = "State changed to running",
                                        !.pre = machines]
       ELSE IF machines[m] = "running" /\ input = "stop"
       THEN /\ machines' = [machines EXCEPT ![m] = "stopped"]
            /\ reply' = [NoReply EXCEPT !.op = "call", !.m = m, !.input = input,
                                        !.ret = "State changed to stopped",
                                        !.pre = machines]
       ELSE /\ reply' = [NoReply EXCEPT !.op = "call", !.m = m, !.input = input,
                                        !.ret = "No state change", !.pre = machines]
            /\ UNCHANGED machines

NextMachine ==
    \/ createStateMachine /\ UNCHANGED exceptMachineVars
    \/ \E m \in 1..Len(machines), input \in Inputs :
           machine(m, input) /\ UNCHANGED exceptMachineVars

SpecMachine == Init /\ [][NextMachine]_vars

\* ---- properties ----------------------------------------------------------
\* the last operation, its input header and its returned header
LastIn == handles[last.h]
LastOut == handles[last.r]
LastOk == last.err = "ok"


\* C1: every handle that exists has 0 <= length <= capacity, whatever
\* sequence of nil / literal / make / append / slice / set / copy produced it
\* (so every append result has capacity >= length).
C1_LengthWithinCapacity ==
    \A w \in HandleIds :
        /\ 0 <= handles[w].len
        /\ handles[w].len <= handles[w].cap

\* an append of a handle that was itself appended or sliced has just returned
\* a handle with spare capacity
C1_Witness ==
    /\ last.op = "append"
    /\ Len(handles) = 3
    /\ LastOut.len > 0
    /\ LastOut.cap > LastOut.len

\* C2: append(s, e) returns a handle of length len(s) + Len(e) whose
\* elements are the elements s had before the call, in order, followed by e
\* in the order given.
C2_AppendResult ==
    last.op = "append" =>
        /\ LastOut.len = LastIn.len + Len(last.elems)
        /\ Elems(stores, LastOut) = Elems(last.pre, LastIn) \o last.elems

\* two different elements were appended to a non-empty slice that is a view
\* with a non-zero start
C2_Witness ==
    /\ last.op = "append"
    /\ Len(last.elems) = 2
    /\ last.elems[1] # last.elems[2]
    /\ LastIn.len > 0
    /\ LastIn.start > 0

\* C3: an append with len(s) + k > cap(s) returns a handle on a new store:
\* every store that existed is unchanged by the append, and a later set
\* through the returned handle leaves every element read through s unchanged
\* (and a later set through s leaves every element read through the returned
\* handle unchanged).
C3_ReallocDoesNotAlias ==
    /\ (last.op = "append" /\ LastIn.len + Len(last.elems) > LastIn.cap) =>
          /\ LastOut.store > Len(last.pre)
          /\ \A st \in 1..Len(last.pre) : stores[st] = last.pre[st]
    /\ (last.op = "set" /\ LastOk) =>
          \A r \in HandleIds :
              LET s == origin[r]
              IN  (s # 0 /\ handles[r].len > handles[s].cap) =>
                      /\ last.h = r =>
                            Elems(stores, handles[s]) = Elems(last.pre, handles[s])
                      /\ last.h = s =>
                            Elems(stores, handles[r]) = Elems(last.pre, handles[r])

\* a set through the handle a reallocating append returned changed an element
\* at an index that s also has
C3_Witness ==
    /\ last.op = "set" /\ LastOk
    /\ origin[last.h] # 0
    /\ LastIn.len > handles[origin[last.h]].cap
    /\ last.lo < handles[origin[last.h]].len
    /\ stores # last.pre

\* C4: an append with len(s) + k <= cap(s) returns a handle with the capacity
\* and the backing store (and pointer) of s, and a later set through the
\* returned handle at an index i < len(s) is read through s at index i.
C4_InPlaceAliases ==
    /\ (last.op = "append" /\ LastIn.len + Len(last.elems) <= LastIn.cap) =>
          /\ LastOut.cap = LastIn.cap
          /\ LastOut.store = LastIn.store
          /\ LastOut.start = LastIn.start
    /\ (last.op = "set" /\ LastOk) =>
          \A r \in HandleIds :
              LET s == origin[r]
              IN  (s # 0 /\ handles[r].len <= handles[s].cap /\ last.h = r
                     /\ last.lo < handles[s].len) =>
                      ElemAt(stores, handles[s], last.lo) = last.val

\* a set through the handle an in-place append returned changed an element
\* that s has too
C4_Witness ==
    /\ last.op = "set" /\ LastOk
    /\ origin[last.h] # 0
    /\ LastIn.len <= handles[origin[last.h]].cap
    /\ LastIn.len > handles[origin[last.h]].len
    /\ last.lo < handles[origin[last.h]].len
    /\ stores # last.pre

\* C5: an append that fits writes element j of e into the store of s at
\* offset start(s) + len(s) + j - 1, so every handle w over that store reads
\* it at index start(s) + len(s) + j - 1 - start(w) when that index is below
\* len(w).
C5_InPlaceWritesSharedStore ==
    (last.op = "append" /\ LastIn.len + Len(last.elems) <= LastIn.cap) =>
        \A j \in 1..Len(last.elems) :
            /\ stores[LastIn.store][LastIn.start + LastIn.len + j] = last.elems[j]
            /\ \A w \in HandleIds :
                   LET i == LastIn.start + LastIn.len + j - 1 - handles[w].start
                   IN  (handles[w].store = LastIn.store /\ 0 <= i /\ i < handles[w].len) =>
                           ElemAt(stores, handles[w], i) = last.elems[j]

\* appending to a view that ends before its array does overwrote an element
\* of the array: slice(arr, 1, 2) of a 3-element arr, then append
C5_Witness ==
    /\ last.op = "append"
    /\ Len(last.elems) > 0
    /\ LastIn.len + Len(last.elems) <= LastIn.cap
    /\ LastIn.start > 0
    /\ \E w \in HandleIds \ {last.h, last.r} :
           /\ handles[w].store = LastIn.store
           /\ handles[w].start = 0
           /\ handles[w].len > LastIn.start + LastIn.len
           /\ Elems(stores, handles[w]) # Elems(last.pre, handles[w])

Max(a, b) == IF a >= b THEN a ELSE b

\* ceil(1.25 * c)
CeilFiveQuarters(c) == c + ((c + 3) \div 4)

\* the capacities and the required length of the last reallocating append of
\* the growth run
OldCap == grown.cap
Required == grown.len + grown.k
NewCap == big.cap

C8_AsStated ==
    (last.op = "slice" /\ (last.lo < 0 \/ last.hi < last.lo \/ last.hi > LastIn.len)) =>
        /\ last.err = "RangeError"
        /\ last.r = 0

\* C8 amended: slice(s, lo, hi) fails with RangeError, returning no view,
\* exactly when lo < 0 or hi < lo or hi > cap(s); the bounds are never
\* clamped: a slice that succeeds has length hi - lo and starts lo after s,
\* also when hi lies in (len(s), cap(s)].
C8_SliceRangeError ==
    last.op = "slice" =>
        /\ last.err = "RangeError" <=>
               (last.lo < 0 \/ last.hi < last.lo \/ last.hi > LastIn.cap)
        /\ last.err = "RangeError" => last.r = 0
        /\ LastOk =>
               /\ last.r # 0
               /\ LastOut.len = last.hi - last.lo
               /\ LastOut.start = LastIn.start + last.lo

\* a slice whose end lies between the length and the capacity of s succeeded
C8_Witness ==
    /\ last.op = "slice" /\ LastOk
    /\ last.hi > LastIn.len
    /\ last.hi <= LastIn.cap
    /\ LastOut.len = last.hi - last.lo

\* C9: get(s, i) and set(s, i, v) fail with IndexOutOfRange exactly when
\* i < 0 or i >= len(s), also when i < cap(s).
C9_IndexOutOfRange ==
    last.op \in {"get", "set"} =>
        /\ last.err = "IndexOutOfRange" <=> (last.lo < 0 \/ last.lo >= LastIn.len)
        /\ last.err \in {"ok", "IndexOutOfRange"}

\* a set at an index between the length and the capacity failed, on a slice
\* that has elements
C9_Witness ==
    /\ last.op = "set"
    /\ last.err = "IndexOutOfRange"
    /\ LastIn.len > 0
    /\ last.lo >= LastIn.len
    /\ last.lo < LastIn.cap

\* C10: a successful set(v, i, x) writes x into the store of v at offset
\* start(v) + i: every handle w over that store reads x at index
\* start(v) + i - start(w) when that index is below len(w), and every other
\* slot of every store is as before.
C10_SetWritesSharedStore ==
    (last.op = "set" /\ LastOk) =>
        /\ stores[LastIn.store][LastIn.start + last.lo + 1] = last.val
        /\ \A w \in HandleIds :
               LET j == LastIn.start + last.lo - handles[w].start
               IN  (handles[w].store = LastIn.store /\ 0 <= j /\ j < handles[w].len) =>
                       ElemAt(stores, handles[w], j) = last.val
        /\ Len(stores) = Len(last.pre)
        /\ \A st \in 1..Len(stores) :
               /\ Len(stores[st]) = Len(last.pre[st])
               /\ \A o \in 1..Len(stores[st]) :
                      (st # LastIn.store \/ o # LastIn.start + last.lo + 1) =>
                          stores[st][o] = last.pre[st][o]

\* a set through a view that starts inside its array changed an element that
\* the array's own handle reads at another index
C10_Witness ==
    /\ last.op = "set" /\ LastOk
    /\ LastIn.start > 0
    /\ stores # last.pre
    /\ \E w \in HandleIds :
           /\ handles[w].store = LastIn.store
           /\ handles[w].start = 0
           /\ ElemAt(stores, handles[w], LastIn.start + last.lo) = last.val
           /\ ElemAt(last.pre, handles[w], LastIn.start + last.lo) # last.val

\* the last operation was a get or a set that failed with IndexOutOfRange
LastIndexFailed == last.op \in {"get", "set"} /\ last.err = "IndexOutOfRange"

\* C11: after a get or a set that failed with IndexOutOfRange, every
\* underlying array has the contents it had before the call and every handle
\* the pointer, length and capacity it had before the call; no array and no
\* handle was added.
C11_FailedIndexChangesNothing ==
    LastIndexFailed =>
        /\ stores = last.pre
        /\ handles = last.preh
        /\ \A w \in HandleIds :
               /\ handles[w].len = last.preh[w].len
               /\ handles[w].cap = last.preh[w].cap

\* a set has just failed on an index between the length and the capacity of
\* its handle, where the array holds a slot, with a value other than the one
\* that slot holds
C11_Witness ==
    /\ last.op = "set"
    /\ last.err = "IndexOutOfRange"
    /\ last.lo >= LastIn.len
    /\ last.lo < LastIn.cap
    /\ stores[LastIn.store][StoreOffset(LastIn, last.lo) + 1] # last.val

\* handle c was returned by copyOf
IsCopy(c) == made[c].op = "copy"

\* the handles that existed before the last operation and look at the
\* underlying array of handle s
ViewsOfStoreOf(s) ==
    {w \in 1..Len(last.preh) : handles[w].store = handles[s].store}

\* handle w reads the elements it read before the last operation
ReadsAsBefore(w) == Elems(stores, handles[w]) = Elems(last.pre, handles[w])

\* C12: copyOf(s) returns a handle with the elements of s in order, length
\* and capacity len(s), over an underlying array no other handle looks at;
\* afterwards a set or an append through the copy changes nothing that s or
\* any view of the array of s reads, and a set through s changes nothing the
\* copy reads.
C12_CopyIsIndependent ==
    /\ last.op = "copy" =>
           /\ Elems(stores, LastOut) = Elems(stores, LastIn)
           /\ LastOut.len = LastIn.len
           /\ LastOut.cap = LastIn.len
           /\ LastOut.len > 0 =>
                  \A w \in HandleIds \ {last.r} : handles[w].store # LastOut.store
           /\ \A w \in 1..Len(last.preh) : ReadsAsBefore(w)
    /\ \A c \in HandleIds :
           IsCopy(c) =>
               /\ (last.op \in {"set", "append"} /\ last.h = c) =>
                      \A w \in ViewsOfStoreOf(made[c].from) : ReadsAsBefore(w)
               /\ (last.op = "set" /\ last.h = made[c].from) => ReadsAsBefore(c)

\* a set through a copy has just stored a value, and the handle that was
\* copied still reads another value at that index
C12_Witness ==
    /\ last.op = "set"
    /\ LastOk
    /\ IsCopy(last.h)
    /\ ElemAt(stores, LastIn, last.lo) = last.val
    /\ ElemAt(stores, handles[made[last.h].from], last.lo) # last.val

\* C13: s[0:len(s)] never fails, and returns a handle of the length of s that
\* reads the elements of s in order.
C13_FullSliceIsSame ==
    (last.op = "slice" /\ last.lo = 0 /\ last.hi = LastIn.len) =>
        /\ LastOk
        /\ last.r # 0
        /\ LastOut.len = LastIn.len
        /\ Elems(stores, LastOut) = Elems(stores, LastIn)

\* s[0:len(s)] has just been taken of a full handle that starts inside its
\* array and holds two different elements
C13_Witness ==
    /\ last.op = "slice"
    /\ LastOk
    /\ last.lo = 0
    /\ last.hi = LastIn.len
    /\ LastIn.len = LastIn.cap
    /\ LastIn.start > 0
    /\ LastIn.len >= 2
    /\ ElemAt(stores, LastOut, 0) # ElemAt(stores, LastOut, 1)

\* the last operation sliced a handle that was itself returned by a slicing
LastSlicedASlice == last.op = "slice" /\ LastOk /\ made[last.h].op = "slice"

\* C14: s[a:b][c:d] is s[a+c:a+d]: it looks at the array of s from the
\* offset of s plus a+c, has length d-c and capacity cap(s)-(a+c), and reads
\* the elements of that array from that offset on.
C14_SlicingComposes ==
    LastSlicedASlice =>
        LET s == handles[made[last.h].from]
            a == made[last.h].lo
            c == last.lo
            d == last.hi
        IN  /\ LastOut.store = s.store
            /\ LastOut.start = s.start + a + c
            /\ LastOut.len = d - c
            /\ LastOut.cap = s.cap - (a + c)
            /\ \A i \in 0..(d - c - 1) :
                   ElemAt(stores, LastOut, i) = stores[s.store][s.start + a + c + i + 1]

\* sliced4 := sliced3[1:2] where sliced3 := arr[1:..]: both lower bounds are
\* positive and the result is not empty
C14_Witness ==
    /\ LastSlicedASlice
    /\ made[last.h].lo > 0
    /\ last.lo > 0
    /\ LastOut.len > 0
    /\ LastOut.start = 2

\* the last append was given k elements on a slice of length l, capacity c
GrewFrom(l, c, k) == grown.len = l /\ grown.cap = c /\ grown.k = k

C16_CapacityNeverDecreases ==
    /\ grown.realloc => big.cap >= grown.cap /\ big.cap >= grown.len + grown.k
    /\ big.cap >= grown.cap

\* an append has just reallocated beyond the growth threshold, to more
\* capacity than its elements needed
C16_Witness ==
    /\ grown.realloc
    /\ grown.cap > GrowthThreshold
    /\ big.cap > grown.len + grown.k

\* C17: append(s) with no elements returns the handle it was given (same
\* array, pointer, length, capacity), allocates no array and writes no slot,
\* also when s is full and when s is the empty slice of capacity 0.
C17_AppendNothing ==
    (last.op = "append" /\ Len(last.elems) = 0) =>
        /\ LastOut = LastIn
        /\ stores = last.pre

\* append with no elements has just returned on a full slice that is not
\* empty
C17_Witness ==
    /\ last.op = "append"
    /\ Len(last.elems) = 0
    /\ LastIn.len = LastIn.cap
    /\ LastIn.len > 0

\* every handle that existed before the last operation is the handle it was
HandlesAsBefore ==
    /\ Len(handles) >= Len(last.preh)
    /\ \A w \in 1..Len(last.preh) : handles[w] = last.preh[w]

\* C18: the empty slice has length 0 and capacity 0; a literal of n elements
\* has length n, capacity n and those elements; make(n, c) has length n,
\* capacity c (make(n): c = n) and n zero elements; and set, get, slice and
\* copyOf leave the length and the capacity of the handle they were given,
\* and of every other handle that exists, as they were (set and get return
\* no handle at all).
C18_ConstructionAndLength ==
    /\ last.op = "nil" => LastOut.len = 0 /\ LastOut.cap = 0
    /\ last.op = "literal" =>
           /\ LastOut.len = Len(last.elems)
           /\ LastOut.cap = Len(last.elems)
           /\ Elems(stores, LastOut) = last.elems
    /\ last.op = "make" =>
           /\ LastOut.len = last.lo
           /\ LastOut.cap = last.hi
           /\ Elems(stores, LastOut) = Zeros(last.lo)
    /\ last.op \in {"set", "get", "slice", "copy"} =>
           /\ HandlesAsBefore
           /\ LastIn.len = last.preh[last.h].len
           /\ LastIn.cap = last.preh[last.h].cap
    /\ last.op \in {"set", "get"} => Len(handles) = Len(last.preh)

\* arr7 := make([]int, l, c) with 0 < l < c has just returned
C18_Witness ==
    /\ last.op = "make"
    /\ last.lo > 0
    /\ last.lo < last.hi
    /\ LastOut.len < LastOut.cap

\* both threads have finished
RaceDone == \A t \in Threads : rpc[t] = "done"

\* both threads read the slice variable before either assigned to it, so
\* both appends found the slice full and allocated a new array
BothReallocated == \A t \in Threads : rlocal[t] = RaceWhole

\* the elements read through the slice variable, and the values appended
RaceResult == Elems(rheap, rshared)
ThreadVals == {ThreadVal(t) : t \in Threads}

\* thread t has stored to the raced slot at array offset o
HasSet(t, o) ==
    IF o = RacedSlot("setA") THEN rpc[t] \in {"setB", "load", "store", "done"}
    ELSE rpc[t] \in {"load", "store", "done"}

\* C19: two threads that share a slice without synchronization.  Once both
\* have appended: when both appends reallocated, the slice variable holds
\* the array of the thread that assigned last, one element longer than the
\* initial slice and ending in one of the two appended values, so the other
\* appended value is missing; otherwise it holds both appended values.  Once
\* both threads have stored to a slot through their aliasing views the slot
\* holds one of the two stored values.
C19_RaceOutcomes ==
    /\ RaceDone =>
           IF BothReallocated
           THEN /\ Len(RaceResult) = RaceLen + 1
                /\ RaceResult[RaceLen + 1] \in ThreadVals
           ELSE /\ Len(RaceResult) = RaceLen + 2
                /\ {RaceResult[RaceLen + 1], RaceResult[RaceLen + 2]} = ThreadVals
    /\ \A o \in {RacedSlot("setA"), RacedSlot("setB")} :
           (\A t \in Threads : HasSet(t, o)) => rheap[1][o + 1] \in ThreadVals

\* both threads have finished, one appended value is missing from the slice,
\* and the two raced slots hold the values of different threads
C19_Witness ==
    /\ RaceDone
    /\ BothReallocated
    /\ Len(RaceResult) = RaceLen + 1
    /\ rheap[1][RacedSlot("setA") + 1] # rheap[1][RacedSlot("setB") + 1]

\* the last append added one element to a full slice of capacity c
GrewFullByOne(c) == GrewFrom(c, c, 1) /\ grown.realloc

PowersOfTwo == {2 ^ j : j \in 0..10}

\* the smallest power of two that is >= n, for 1 <= n <= 1024
CeilPowerOfTwo(n) == CHOOSE q \in PowersOfTwo : q >= n /\ (q = 1 \/ q \div 2 < n)

C22_ClosureOwnsMoney ==
    /\ Len(calls) = Len(money)
    /\ \A i \in 1..Len(money) : money[i] = 100 + 30 * calls[i]
    /\ constA = 10
    /\ varP = 20

\* two closures exist, the first called three times (money 190) and the
\* second once (money 130)
C22_Witness ==
    /\ Len(money) >= 2
    /\ calls[1] = 3
    /\ calls[2] = 1
    /\ money[1] = 190
    /\ money[2] = 130

\* the lines the init example prints
InitExampleOutput ==
    << <<"a =", 10>>, <<"init function">>, <<"main function">>, <<"a =", 10>> >>

\* main has started
MainStarted == phase = "exit" \/ (phase = "main" /\ (stmt > 0 \/ Len(out) = 4))

\* init has not executed its first statement
InitNotStarted == initRuns = 0 /\ ~(phase = "init" /\ stmt > 1)

\* C23: in every order of the three declarations of the file: a is 0 until
\* init assigns to it; init runs once, and has run to its end with a = 10
\* when main starts; the lines printed are at every moment the first lines
\* of "a = 10", "init function", "main function", "a = 10", and all four
\* when the program ends.
C23_InitBeforeMain ==
    /\ InitNotStarted => globalA = 0 /\ out = <<>>
    /\ initRuns <= 1
    /\ MainStarted => initRuns = 1 /\ globalA = 10
    /\ Len(out) <= 4
    /\ out = SubSeq(InitExampleOutput, 1, Len(out))
    /\ phase = "exit" => out = InitExampleOutput

\* the program has ended, in the order of the source file: var a, func main,
\* func init
C23_Witness ==
    /\ phase = "exit"
    /\ decls = <<"var a", "func main", "func init">>
    /\ Len(out) = 4

\* the block has been entered and its a declared
InnerDeclared == line \in {12, 13}

\* C24: once the outer a is declared it keeps the value it was declared
\* with, also while and after an inner block declares its own a; inside the
\* block a reads the inner value, after the block a reads the outer value
\* again; with 10 outside and 47 inside the program prints 47 then 10.
C24_ShadowLeavesOuter ==
    /\ line > 5 => scopes[1] = DeclaresA(given.outer)
    /\ InnerDeclared => ReadA(scopes) = given.inner
    /\ line \in {15, 16} => ReadA(scopes) = given.outer
    /\ (line >= 13 /\ shadowAge >= 18) => printed[1] = given.inner
    /\ (line = 16 /\ shadowAge >= 18) => printed = <<given.inner, given.outer>>
    /\ (line = 16 /\ shadowAge < 18) => printed = <<given.outer>>
    /\ (line = 16 /\ shadowAge = 30 /\ given = [outer |-> 10, inner |-> 47]) =>
           printed = <<47, 10>>

\* the example has ended with a = 10 outside, a := 47 inside and age = 30
C24_Witness ==
    /\ line = 16
    /\ shadowAge = 30
    /\ given = [outer |-> 10, inner |-> 47]
    /\ Len(printed) = 2

\* the variables other than the one the last statement was about are as
\* they were before it
OtherCellsAsBefore ==
    /\ Len(cells) = Len(mlast.pre)
    /\ \A d \in CellIds : d # mlast.c => cells[d] = mlast.pre[d]

\* array now is array before with element i (from 0) holding v and every
\* other element as it was
OnlyElemWritten(now, before, i, v) ==
    /\ Len(now) = Len(before)
    /\ now[i + 1] = v
    /\ \A j \in 1..Len(before) : j # i + 1 => now[j] = before[j]

\* C25: destination := source makes a new array with every element of the
\* source and leaves every variable as it was; modifyArray(arr) writes its
\* parameter, a copy, and leaves every variable of the caller as it was; a
\* write to an element of one array variable, copy or original, changes that
\* element only and no other variable.
C25_ArrayValueSemantics ==
    /\ mlast.op = "assign" =>
           /\ Len(cells) = Len(mlast.pre) + 1
           /\ cells[Len(cells)] = mlast.pre[mlast.c]
           /\ \A d \in 1..Len(mlast.pre) : cells[d] = mlast.pre[d]
    /\ mlast.op = "byValue" =>
           /\ cells = mlast.pre
           /\ OnlyElemWritten(mlast.param, mlast.pre[mlast.c], mlast.i, mlast.v)
    /\ mlast.op = "setElem" =>
           /\ OtherCellsAsBefore
           /\ OnlyElemWritten(cells[mlast.c], mlast.pre[mlast.c], mlast.i, mlast.v)

\* modifyArray(arr) has just returned after writing to its parameter a value
\* that the array of the caller does not hold at that index
C25_Witness ==
    /\ mlast.op = "byValue"
    /\ mlast.param[mlast.i + 1] = mlast.v
    /\ cells[mlast.c][mlast.i + 1] # mlast.v

\* C26: *p = v makes the variable p points to read v and leaves every other
\* variable as it was; modifyArray(&arr) with (*numbers)[i] = v makes arr
\* read v at index i in the caller, with every other element of arr and
\* every other variable as it was.
C26_PointerWrite ==
    /\ mlast.op = "store" =>
           /\ mlast.c = ptrs[mlast.ptr]
           /\ cells[mlast.c] = mlast.v
           /\ OtherCellsAsBefore
    /\ mlast.op = "byPointer" =>
           /\ OnlyElemWritten(cells[mlast.c], mlast.pre[mlast.c], mlast.i, mlast.v)
           /\ OtherCellsAsBefore

\* x := ..., p := &x, *p = v with v another value than x held: x reads v
C26_Witness ==
    /\ mlast.op = "store"
    /\ mlast.pre[mlast.c] # mlast.v
    /\ cells[mlast.c] = mlast.v

\* C27: for every age the chain prints exactly one line, and nothing before
\* the chain has ended: "you are an adult" when age >= 18, "you are a
\* teenager" when 13 <= age <= 17, "you are a child" when age < 13; a
\* branch is reached only when every condition above it failed.
C27_ExactlyOneBranch ==
    /\ ifLine # 15 => said = <<>>
    /\ ifLine = 10 => age < 18
    /\ ifLine = 12 => age < 13
    /\ ifLine = 15 =>
           /\ Len(said) = 1
           /\ age >= 18 => said[1] = "you are an adult"
           /\ (13 <= age /\ age <= 17) => said[1] = "you are a teenager"
           /\ age < 13 => said[1] = "you are a child"

\* the chain has ended for age = 18
C27_Witness == ifLine = 15 /\ age = 18 /\ Len(said) = 1

\* C28: safeAppend leaves every slot of every underlying array that existed
\* before the call, and every handle, as it was, also when its argument has
\* room for the values; its result reads the elements of the argument
\* followed by the values.
C28_SafeAppendLeavesOriginal ==
    last.op = "safeAppend" =>
        /\ Len(stores) >= Len(last.pre)
        /\ \A st \in 1..Len(last.pre) : stores[st] = last.pre[st]
        /\ \A w \in 1..Len(last.preh) : handles[w] = last.preh[w]
        /\ Elems(stores, LastOut) = Elems(last.pre, LastIn) \o last.elems
        /\ LastOut.len = LastIn.len + Len(last.elems)

\* safeAppend has just returned for an argument with room for the values,
\* where another view reads the slot after the argument's last element and
\* that slot holds another value than the first one appended
C28_Witness ==
    /\ last.op = "safeAppend"
    /\ Len(last.elems) > 0
    /\ LastIn.len + Len(last.elems) <= LastIn.cap
    /\ \E w \in 1..Len(last.preh) :
           /\ w # last.h
           /\ handles[w].store = LastIn.store
           /\ handles[w].start + handles[w].len > LastIn.start + LastIn.len
    /\ stores[LastIn.store][LastIn.start + LastIn.len + 1] # last.elems[1]

\* the state of the called machine before and after the last call
StateBefore == reply.pre[reply.m]
StateAfter == machines[reply.m]

\* C29: every machine is in initial, running or stopped, and a new one is
\* in initial; a call changes the state of the called machine only, from
\* initial to running on "start" and from running to stopped on "stop";
\* every other state and input leaves the state as it was and returns "No
\* state change"; a machine that was stopped is stopped after every call.
C29_StateMachine ==
    /\ \A m \in 1..Len(machines) : machines[m] \in {"initial", "running", "stopped"}
    /\ reply.op = "create" =>
           /\ machines = Append(reply.pre, "initial")
    /\ reply.op = "call" =>
           /\ Len(machines) = Len(reply.pre)
           /\ \A m \in 1..Len(machines) : m # reply.m => machines[m] = reply.pre[m]
           /\ IF StateBefore = "initial" /\ reply.input = "start"
              THEN StateAfter = "running" /\ reply.ret = "State changed to running"
              ELSE IF StateBefore = "running" /\ reply.input = "stop"
              THEN StateAfter = "stopped" /\ reply.ret = "State changed to stopped"
              ELSE StateAfter = StateBefore /\ reply.ret = "No state change"
           /\ StateBefore = "stopped" => StateAfter = "stopped"

\* a stopped machine has just been given "start", while another machine is
\* running
C29_Witness ==
    /\ reply.op = "call"
    /\ StateBefore = "stopped"
    /\ reply.input = "start"
    /\ \E m \in 1..Len(machines) : machines[m] = "running"

====
